---------------------------- MODULE Spec2Model ----------------------------
(***************************************************************************)
(* A model of the core of poet's prompt pipeline:                          *)
(*   - the tag-tree interpreter   (rhai_components/eval_tag_stack_node.rs) *)
(*   - the component registry     (rhai_components/component_registry.rs)  *)
(*   - the prompt controller      (prompt_document_controller.rs)          *)
(*   - the parallel builder       (build_prompt_controller_collection)     *)
(* Strings are sequences of tokens, so that concatenation, wrapping and    *)
(* the string form of a dynamic value are computed and not assumed.        *)
(***************************************************************************)
EXTENDS Integers, Sequences, FiniteSets, TLC

VARIABLES
    \* ---- tag-tree interpreter -------------------------------------------
    node,            \* the TagStackNode handed to eval_tag_stack_node
    components,      \* ComponentRegistry.components: name -> ComponentReference
    scope,           \* the variables of the rhai scope (may lack "context")
    render_result,   \* what eval_tag_stack_node returned, or Pending
    \* ---- parallel builder -----------------------------------------------
    files,           \* read_project_files(): the project's file entries
    file_pc,         \* per file: position of the for_each closure
    prompt_controller_map, \* DashMap<String, PromptController>
    error_collection,      \* DocumentErrorCollection
    build_result,    \* what build_prompt_controller_collection returned
    \* ---- prompt controller ----------------------------------------------
    controller,      \* a PromptDocumentController (front matter + mdast)
    requests,        \* per request slot: the respond_to call running there
    responses,       \* every (arguments, result) pair returned so far
    started          \* number of respond_to calls made so far

treeVars  == <<node, components, scope, render_result>>
buildVars == <<files, file_pc, prompt_controller_map, error_collection, build_result>>
reqVars   == <<controller, requests, responses, started>>
vars      == <<treeVars, buildVars, reqVars>>

-----------------------------------------------------------------------------
(* Bounds of the model *)

\* largest number of nodes of a generated tag tree
MaxNodes == 4
\* largest number of attributes of a generated component tag
MaxAttrs == 2
\* largest number of files the project holds
MaxFiles == 3
\* largest number of blocks of a prompt document
MaxBlocks == 2
\* largest number of respond_to calls in one behaviour
MaxRequests == 2

-----------------------------------------------------------------------------
(* Dynamic values (rhai::Dynamic), results and strings                      *)

Str(s)    == [kind |-> "string", str |-> s, items |-> <<>>]
Bool(b)   == [kind |-> "bool", str |-> IF b THEN <<"true">> ELSE <<"false">>, items |-> <<>>]
Arr(its)  == [kind |-> "array", str |-> <<>>, items |-> its]

RECURSIVE JoinWith(_, _)
JoinWith(its, sep) ==
    IF its = <<>> THEN <<>>
    ELSE IF Len(its) = 1 THEN Head(its)
    ELSE Head(its) \o sep \o JoinWith(Tail(its), sep)

\* Dynamic::to_string: a string is itself, a bool is "true"/"false", an
\* array is rhai's bracketed, comma separated form
to_string(d) ==
    IF d.kind = "array" THEN <<"[">> \o JoinWith(d.items, <<", ">>) \o <<"]">>
    ELSE d.str

NoCalls == <<>>
Ok(s, calls)  == [ok |-> TRUE, val |-> s, calls |-> calls]
Err(e, calls) == [ok |-> FALSE, val |-> e, calls |-> calls]
Pending == [ok |-> FALSE, val |-> <<"pending">>, calls |-> NoCalls]

OkDyn(d)  == [ok |-> TRUE, dyn |-> d, err |-> <<>>]
ErrDyn(e) == [ok |-> FALSE, dyn |-> Str(<<>>), err |-> e]

-----------------------------------------------------------------------------
(* TagStackNode, OpeningTag, Attribute, AttributeValue                       *)

NoValue          == [kind |-> "none", text |-> <<>>, expr |-> ""]
TextValue(t)     == [kind |-> "Text", text |-> t, expr |-> ""]
ExprValue(e)     == [kind |-> "Expression", text |-> <<>>, expr |-> e]
Attribute(n, v)  == [name |-> n, value |-> v]

NoOpening == [present |-> FALSE, name |-> "", is_component |-> FALSE, attributes |-> <<>>]
OpeningTag(n, comp, attrs) ==
    [present |-> TRUE, name |-> n, is_component |-> comp, attributes |-> attrs]

Text(t) ==
    [type |-> "Text", text |-> t, expr |-> "", opening |-> NoOpening,
     children |-> <<>>, is_closed |-> FALSE]
BodyExpression(e) ==
    [type |-> "BodyExpression", text |-> <<>>, expr |-> e, opening |-> NoOpening,
     children |-> <<>>, is_closed |-> FALSE]
Tag(opening, children, closed) ==
    [type |-> "Tag", text |-> <<>>, expr |-> "", opening |-> opening,
     children |-> children, is_closed |-> closed]

-----------------------------------------------------------------------------
(* The scope and the expression evaluator                                    *)

ContextValue == Str(<<"ride a horse">>)
NoContextScope   == [has_context |-> FALSE, context |-> Str(<<>>)]
WithContextScope == [has_context |-> TRUE, context |-> ContextValue]

\* (changed) a missing context is replaced by the default value
ScopeGetContextOrDefault(sc) == TRUE

\* eval_context.scope().get("context") is Some
ScopeGetContext(sc) == sc.has_context

\* ExpressionCollection::eval_expression: the parsed expressions of the
\* document, evaluated by rhai against the scope
Expressions == {"greeting", "items", "broken", "context.input"}
eval_expression(sc, e) ==
    CASE e = "greeting" -> OkDyn(Str(<<"hello">>))
      [] e = "items" -> OkDyn(Arr(<<<<"p">>, <<"q">>>>))
      [] e = "context.input" ->
            IF sc.has_context THEN OkDyn(sc.context)
            ELSE ErrDyn(<<"Variable not found: context">>)
      [] OTHER -> ErrDyn(<<"Syntax error in expression">>)

-----------------------------------------------------------------------------
(* ComponentRegistry                                                         *)

ComponentReference(n, f) == [name |-> n, global_fn_name |-> f]

NotFoundError(component_name) == <<"Component '", component_name, "' not found">>

\* (changed) an unknown component falls back on a function of its own name
get_global_fn_name_or_default(registry, component_name) ==
    [ok |-> TRUE,
     name |-> IF component_name \in DOMAIN registry
              THEN registry[component_name].global_fn_name ELSE component_name,
     err |-> <<>>]

\* ComponentRegistry::get_global_fn_name
get_global_fn_name(registry, component_name) ==
    IF component_name \in DOMAIN registry
    THEN [ok |-> TRUE, name |-> registry[component_name].global_fn_name, err |-> <<>>]
    ELSE [ok |-> FALSE, name |-> "", err |-> NotFoundError(component_name)]

\* ComponentRegistry::register_component: DashMap::insert, last write wins
register_component(registry, ref) ==
    [n \in DOMAIN registry \cup {ref.name} |->
        IF n = ref.name THEN ref ELSE registry[n]]

\* ComponentRegistry::default
EmptyRegistry == [n \in {} |-> ComponentReference("", "")]

-----------------------------------------------------------------------------
(* Component functions and literal markup                                    *)

\* EvalContext::call_fn on a component's global function with the three
\* positional values (context, props, content)
call_fn(fn_name, context, props, content) ==
    CASE fn_name = "tpl_note" -> OkDyn(Str(<<"{note ">> \o content \o <<"}">>))
      [] fn_name = "tpl_list" -> OkDyn(Arr(<<content, to_string(context)>>))
      [] OTHER -> ErrDyn(<<"Function not found: ", fn_name>>)

\* the value an attribute serializes to inside literal markup
SerializedValue(sc, attribute) ==
    CASE attribute.value.kind = "none" -> OkDyn(Str(<<>>))
      [] attribute.value.kind = "Text" ->
            OkDyn(Str(<<"=\"">> \o attribute.value.text \o <<"\"">>))
      [] OTHER ->
            LET r == eval_expression(sc, attribute.value.expr)
            IN  IF r.ok THEN OkDyn(Str(<<"=\"">> \o to_string(r.dyn) \o <<"\"">>))
                ELSE r

RECURSIVE SerializeAttributes(_, _, _)
SerializeAttributes(sc, attributes, acc) ==
    IF attributes = <<>> THEN OkDyn(Str(acc))
    ELSE LET r == SerializedValue(sc, Head(attributes))
         IN  IF ~r.ok THEN r
             ELSE SerializeAttributes(sc, Tail(attributes),
                                      acc \o <<" ", Head(attributes).name>> \o r.dyn.str)

\* eval_tag: the literal opening markup of a tag, name plus attributes
eval_tag(sc, opening_tag) ==
    LET r == SerializeAttributes(sc, opening_tag.attributes, <<>>)
    IN  IF ~r.ok THEN r
        ELSE OkDyn(Str(<<"<", opening_tag.name>> \o r.dyn.str \o <<">">>))

\* format!("</{}>", opening_tag.name)
ClosingMarkup(opening_tag) == <<"</", opening_tag.name, ">">>

-----------------------------------------------------------------------------
(* eval_tag_stack_node                                                       *)

\* (changed) an attribute without value binds the empty string
AttributeBindingShorthandEmpty(sc, attribute) ==
    CASE attribute.value.kind = "Expression" -> eval_expression(sc, attribute.value.expr)
      [] attribute.value.kind = "Text" -> OkDyn(Str(attribute.value.text))
      [] OTHER -> OkDyn(Str(<<>>))

\* the value bound in props for one attribute
AttributeBinding(sc, attribute) ==
    CASE attribute.value.kind = "Expression" -> eval_expression(sc, attribute.value.expr)
      [] attribute.value.kind = "Text" -> OkDyn(Str(attribute.value.text))
      [] OTHER -> OkDyn(Bool(TRUE))

\* Map::insert
MapInsert(props, key, value) ==
    [k \in DOMAIN props \cup {key} |-> IF k = key THEN value ELSE props[k]]

EmptyProps == [k \in {} |-> Bool(TRUE)]

\* for attribute in &opening_tag.attributes { props.insert(..) }
RECURSIVE BuildProps(_, _, _)
BuildProps(sc, attributes, props) ==
    IF attributes = <<>> THEN [ok |-> TRUE, props |-> props, err |-> <<>>]
    ELSE LET r == AttributeBinding(sc, Head(attributes))
         IN  IF ~r.ok THEN [ok |-> FALSE, props |-> EmptyProps, err |-> r.err]
             ELSE BuildProps(sc, Tail(attributes),
                             MapInsert(props, Head(attributes).name, r.dyn))

\* the first `if let`: literal opening markup goes in front of the children
EmitsOpening(opening_tag) ==
    opening_tag.present /\ ~opening_tag.is_component

\* (changed) closing markup is appended whether or not the tag was closed
EmitsClosingAlways(opening_tag, is_closed) ==
    opening_tag.present /\ ~opening_tag.is_component

\* the second `if let`: closing markup is appended and the result returned
EmitsClosing(opening_tag, is_closed) ==
    opening_tag.present /\ is_closed /\ ~opening_tag.is_component

\* the third `if let`: the tag dispatches to a component
IsDispatched(opening_tag) ==
    opening_tag.present /\ opening_tag.is_component

\* the positional values handed to the component function
CallArguments(context, props, result) ==
    [context |-> context, props |-> props, content |-> result]

\* eval_context.call_fn(get_global_fn_name(..)?, (context, props, result))
DispatchComponent(registry, sc, opening_tag, props, result, calls) ==
    LET fn == get_global_fn_name(registry, opening_tag.name)
    IN  IF ~fn.ok THEN Err(<<"Component not found: ">> \o fn.err, calls)
        ELSE IF ~ScopeGetContext(sc)
        THEN Err(<<"'context' variable not found in scope">>, calls)
        ELSE LET args == CallArguments(sc.context, props, result)
                 call == [fn |-> fn.name, args |-> args]
                 out  == call_fn(fn.name, args.context, args.props, args.content)
             IN  IF ~out.ok
                 THEN Err(<<"Failed to call component function: ">> \o out.err,
                          Append(calls, call))
                 ELSE Ok(to_string(out.dyn), Append(calls, call))

RECURSIVE eval_tag_stack_node(_, _, _)
RECURSIVE EvalChildren(_, _, _, _, _)

\* for child in children { result.push_str(&eval_tag_stack_node(..)?) }
EvalChildren(registry, sc, children, result, calls) ==
    IF children = <<>> THEN Ok(result, calls)
    ELSE LET r == eval_tag_stack_node(registry, sc, Head(children))
         IN  IF ~r.ok THEN Err(r.val, calls \o r.calls)
             ELSE EvalChildren(registry, sc, Tail(children),
                               result \o r.val, calls \o r.calls)

EvalBodyExpression(sc, expression_reference) ==
    LET r == eval_expression(sc, expression_reference)
    IN  IF ~r.ok THEN Err(r.err, NoCalls)
        ELSE IF r.dyn.kind = "array" THEN Ok(JoinWith(r.dyn.items, <<>>), NoCalls)
        ELSE Ok(to_string(r.dyn), NoCalls)

EvalTagNode(registry, sc, current_node) ==
    LET opening_tag == current_node.opening
        open == IF EmitsOpening(opening_tag) THEN eval_tag(sc, opening_tag)
                ELSE OkDyn(Str(<<>>))
    IN  IF ~open.ok THEN Err(open.err, NoCalls)
        ELSE
        LET body == EvalChildren(registry, sc, current_node.children,
                                 open.dyn.str, NoCalls)
        IN  IF ~body.ok THEN body
            ELSE IF EmitsClosing(opening_tag, current_node.is_closed)
            THEN Ok(body.val \o ClosingMarkup(opening_tag), body.calls)
            ELSE IF IsDispatched(opening_tag)
            THEN LET p == BuildProps(sc, opening_tag.attributes, EmptyProps)
                 IN  IF ~p.ok THEN Err(p.err, body.calls)
                     ELSE DispatchComponent(registry, sc, opening_tag, p.props,
                                            body.val, body.calls)
            ELSE body

eval_tag_stack_node(registry, sc, current_node) ==
    CASE current_node.type = "BodyExpression" -> EvalBodyExpression(sc, current_node.expr)
      [] current_node.type = "Tag" -> EvalTagNode(registry, sc, current_node)
      [] OTHER -> Ok(current_node.text, NoCalls)

-----------------------------------------------------------------------------
(* Variables a specification does not use stay at these values               *)

TreeIdle ==
    /\ node = Text(<<>>)
    /\ components = EmptyRegistry
    /\ scope = NoContextScope
    /\ render_result = Pending

BuildIdle ==
    /\ files = <<>>
    /\ file_pc = <<>>
    /\ prompt_controller_map = <<>>
    /\ error_collection = <<>>
    /\ build_result = [status |-> "idle", collection |-> <<>>, report |-> <<>>]

ReqIdle ==
    /\ controller = <<>>
    /\ requests = <<>>
    /\ responses = {}
    /\ started = 0

-----------------------------------------------------------------------------
(* Rendering tag trees: the trees are grown node by node, the registry is    *)
(* filled by register_component, and Render applies eval_tag_stack_node      *)

Leaves ==
    {Text(<<"x">>), BodyExpression("context.input"), BodyExpression("items")}

\* <b> is literal markup; Note and Ghost are components, and no component
\* named Ghost is ever registered
TreeShells ==
    {Tag(NoOpening, <<>>, FALSE),
     Tag(OpeningTag("b", FALSE, <<>>), <<>>, TRUE),
     Tag(OpeningTag("b", FALSE, <<>>), <<>>, FALSE),
     Tag(OpeningTag("Note", TRUE, <<>>), <<>>, TRUE),
     Tag(OpeningTag("Note", TRUE, <<>>), <<>>, FALSE),
     Tag(OpeningTag("Ghost", TRUE, <<>>), <<>>, TRUE)}

TreeComponentRefs ==
    {ComponentReference("Note", "tpl_note"), ComponentReference("Note", "tpl_list")}

RECURSIVE NodeCount(_)
RECURSIVE NodeCountAll(_)
NodeCountAll(children) ==
    IF children = <<>> THEN 0
    ELSE NodeCount(Head(children)) + NodeCountAll(Tail(children))
NodeCount(n) == 1 + NodeCountAll(n.children)

TreeInit ==
    /\ node \in Leaves \cup TreeShells
    /\ components = EmptyRegistry
    /\ scope \in {NoContextScope, WithContextScope}
    /\ render_result = Pending
    /\ BuildIdle
    /\ ReqIdle

RegisterComponent(ref) ==
    /\ render_result = Pending
    /\ components' = register_component(components, ref)
    /\ UNCHANGED <<node, scope, render_result, buildVars, reqVars>>

Wrap(shell) ==
    /\ render_result = Pending
    /\ NodeCount(node) < MaxNodes
    /\ node' = [shell EXCEPT !.children = <<node>>]
    /\ UNCHANGED <<components, scope, render_result, buildVars, reqVars>>

PrependLeaf(l) ==
    /\ render_result = Pending
    /\ node.type = "Tag"
    /\ NodeCount(node) < MaxNodes
    /\ node' = [node EXCEPT !.children = <<l>> \o @]
    /\ UNCHANGED <<components, scope, render_result, buildVars, reqVars>>

AppendLeaf(l) ==
    /\ render_result = Pending
    /\ node.type = "Tag"
    /\ NodeCount(node) < MaxNodes
    /\ node' = [node EXCEPT !.children = @ \o <<l>>]
    /\ UNCHANGED <<components, scope, render_result, buildVars, reqVars>>

Render ==
    /\ render_result = Pending
    /\ render_result' = eval_tag_stack_node(components, scope, node)
    /\ UNCHANGED <<node, components, scope, buildVars, reqVars>>

TreeNext ==
    \/ \E ref \in TreeComponentRefs : RegisterComponent(ref)
    \/ \E shell \in TreeShells : Wrap(shell)
    \/ \E l \in Leaves : PrependLeaf(l)
    \/ \E l \in Leaves : AppendLeaf(l)
    \/ Render

SpecTree == TreeInit /\ [][TreeNext]_vars

-----------------------------------------------------------------------------
(* Facts about a tree, used to state the properties                          *)

Rendered == render_result # Pending

RECURSIVE ComponentNames(_)
ComponentNames(n) ==
    (IF n.type = "Tag" /\ n.opening.present /\ n.opening.is_component
     THEN {n.opening.name} ELSE {})
    \cup UNION {ComponentNames(n.children[i]) : i \in 1..Len(n.children)}

UnregisteredNames(n) == ComponentNames(n) \ DOMAIN components
RegisteredNames(n) == ComponentNames(n) \cap DOMAIN components

RECURSIVE BodyExpressions(_)
BodyExpressions(n) ==
    (IF n.type = "BodyExpression" THEN {n.expr} ELSE {})
    \cup UNION {BodyExpressions(n.children[i]) : i \in 1..Len(n.children)}

AllExpressionsEvaluate(n) ==
    \A e \in BodyExpressions(n) : eval_expression(scope, e).ok

\* the children of the rendered node, each rendered on its own and joined
RECURSIVE RenderedChildren(_)
RenderedChildren(children) ==
    IF children = <<>> THEN <<>>
    ELSE eval_tag_stack_node(components, scope, Head(children)).val
         \o RenderedChildren(Tail(children))

ComponentNotFound(name) == <<"Component not found: ">> \o NotFoundError(name)
ContextNotFound == <<"'context' variable not found in scope">>

Contains(s, pair) ==
    \E i \in 1..(Len(s) - 1) : s[i] = pair[1] /\ s[i + 1] = pair[2]

-----------------------------------------------------------------------------
\* C5 (as stated): whenever the rendered tree holds a component tag whose
\* name is not registered, the render returns an error naming exactly that
\* component, for every such tag and wherever it sits.
C5_AsStated ==
    Rendered =>
        \A name \in UnregisteredNames(node) :
            /\ ~render_result.ok
            /\ render_result.val = ComponentNotFound(name)

\* C5 (amended): a tree holding a component tag whose name is not registered
\* never renders to a string: the result is an error, whatever was rendered
\* for children, siblings and ancestors. The error names that component when
\* the tag is the only thing in the tree that can fail (every expression
\* evaluates, no other name is unregistered, and registered components find
\* the context they need).
C5_UnregisteredComponentFails ==
    Rendered =>
        \A name \in UnregisteredNames(node) :
            /\ ~render_result.ok
            /\ ( /\ UnregisteredNames(node) = {name}
                 /\ AllExpressionsEvaluate(node)
                 /\ (RegisteredNames(node) # {} => scope.has_context)
                 => render_result.val = ComponentNotFound(name) )

\* an unregistered component below a literal tag, after a rendered sibling
\* and with a rendered child of its own: the error names it
C5_Witness ==
    /\ Rendered
    /\ node.type = "Tag" /\ EmitsOpening(node.opening)
    /\ Len(node.children) = 2
    /\ node.children[1] = Text(<<"x">>)
    /\ node.children[2].type = "Tag"
    /\ node.children[2].opening.name = "Ghost"
    /\ node.children[2].children # <<>>
    /\ ~render_result.ok
    /\ render_result.val = ComponentNotFound("Ghost")

-----------------------------------------------------------------------------
\* C7: a literal tag renders as its opening markup, then its children in
\* order, then </name> exactly when it is marked closed; a synthetic group
\* renders as its children only; a component tag hands exactly its rendered
\* children to the component and adds no markup of its own.
C7_LiteralTagMarkup ==
    (Rendered /\ render_result.ok /\ node.type = "Tag") =>
        LET kids == RenderedChildren(node.children)
            o == node.opening
        IN  CASE ~o.present -> render_result.val = kids
              [] o.present /\ ~o.is_component ->
                    /\ eval_tag(scope, o).ok
                    /\ render_result.val =
                         eval_tag(scope, o).dyn.str \o kids
                         \o (IF node.is_closed THEN <<"</", o.name, ">">> ELSE <<>>)
              [] OTHER ->
                    /\ render_result.calls # <<>>
                    /\ render_result.calls[Len(render_result.calls)].args.content = kids
                    /\ ~Contains(render_result.val, <<"<", o.name>>)
                    /\ ~Contains(render_result.val, <<"</", o.name>>)

\* an unclosed literal tag around a closed one: <b><b>x</b>
C7_Witness ==
    /\ Rendered /\ render_result.ok
    /\ node.type = "Tag" /\ EmitsOpening(node.opening) /\ ~node.is_closed
    /\ Len(node.children) = 1
    /\ node.children[1].type = "Tag"
    /\ EmitsOpening(node.children[1].opening) /\ node.children[1].is_closed
    /\ node.children[1].children = <<Text(<<"x">>)>>
    /\ render_result.val = <<"<", "b", ">", "<", "b", ">", "x", "</", "b", ">">>

-----------------------------------------------------------------------------
\* C9 (as stated): in a scope without a `context` binding every render
\* returns an error, whatever the node.
C9_AsStated ==
    (Rendered /\ ~scope.has_context) => ~render_result.ok

\* C9 (amended): in a scope without a `context` binding, every tree that
\* holds a component tag renders to an error, and a registered component whose
\* children render fails with the missing-context error; a tree with no
\* component tag and no expression that fails still renders to a string.
C9_DispatchNeedsContext ==
    (Rendered /\ ~scope.has_context) =>
        /\ (ComponentNames(node) # {} => ~render_result.ok)
        /\ ( /\ node.type = "Tag" /\ IsDispatched(node.opening)
             /\ node.opening.name \in DOMAIN components
             /\ AllExpressionsEvaluate(node)
             /\ UnregisteredNames(node) = {}
             /\ RegisteredNames(node) = {node.opening.name}
             /\ \A i \in 1..Len(node.children) : ComponentNames(node.children[i]) = {}
             => render_result.val = ContextNotFound )
        /\ ( ComponentNames(node) = {} /\ AllExpressionsEvaluate(node)
             => render_result.ok )

\* a registered component with rendered children, dispatched without context
C9_Witness ==
    /\ Rendered /\ ~scope.has_context
    /\ node.type = "Tag" /\ IsDispatched(node.opening)
    /\ node.opening.name \in DOMAIN components
    /\ node.children = <<Text(<<"x">>), BodyExpression("items")>>
    /\ ~render_result.ok
    /\ render_result.val = ContextNotFound

-----------------------------------------------------------------------------
(* Rendering one tag with attributes: the attributes are added one by one    *)

AttributeValues ==
    {NoValue, TextValue(<<"v">>)} \cup {ExprValue(e) : e \in Expressions}

Attributes == {Attribute(n, v) : n \in {"k", "m"}, v \in AttributeValues}

PropsShells ==
    {Tag(OpeningTag("Note", TRUE, <<>>), <<>>, TRUE),
     Tag(OpeningTag("Note", TRUE, <<>>), <<Text(<<"x">>)>>, FALSE),
     Tag(OpeningTag("Note", TRUE, <<>>), <<Text(<<"x">>), BodyExpression("items")>>, TRUE),
     Tag(OpeningTag("b", FALSE, <<>>), <<Text(<<"x">>)>>, TRUE)}

PropsComponentRefs ==
    TreeComponentRefs \cup {ComponentReference("Note", "tpl_gone")}

PropsInit ==
    /\ node \in PropsShells
    /\ components = EmptyRegistry
    /\ scope \in {NoContextScope, WithContextScope}
    /\ render_result = Pending
    /\ BuildIdle
    /\ ReqIdle

AddAttribute(a) ==
    /\ render_result = Pending
    /\ Len(node.opening.attributes) < MaxAttrs
    /\ node' = [node EXCEPT !.opening.attributes = Append(@, a)]
    /\ UNCHANGED <<components, scope, render_result, buildVars, reqVars>>

PropsNext ==
    \/ \E ref \in PropsComponentRefs : RegisterComponent(ref)
    \/ \E a \in Attributes : AddAttribute(a)
    \/ Render

SpecProps == PropsInit /\ [][PropsNext]_vars

LastCall == render_result.calls[Len(render_result.calls)]

\* the last attribute carrying a name
LastNamed(attributes, n) ==
    LET i == CHOOSE i \in 1..Len(attributes) :
                /\ attributes[i].name = n
                /\ \A j \in (i + 1)..Len(attributes) : attributes[j].name # n
    IN  attributes[i]

-----------------------------------------------------------------------------
\* C8: when a component tag is dispatched, the component function is the one
\* registered under the tag's name and it is called with exactly the scope's
\* context, the props map and the rendered children; the props map has one
\* binding per attribute name: true for an attribute without value, the text
\* of a Text value, the evaluated value of an Expression value; and a
\* successful render is the string form of what the function returned.
C8_PropsAndDispatch ==
    (Rendered /\ node.type = "Tag" /\ IsDispatched(node.opening)
        /\ render_result.calls # <<>>) =>
        LET attrs == node.opening.attributes
            props == LastCall.args.props
            names == {attrs[i].name : i \in 1..Len(attrs)}
        IN  /\ DOMAIN props = names
            /\ \A n \in names :
                 LET v == LastNamed(attrs, n).value
                 IN  CASE v.kind = "none" -> props[n] = Bool(TRUE)
                       [] v.kind = "Text" -> props[n] = Str(v.text)
                       [] OTHER ->
                            /\ eval_expression(scope, v.expr).ok
                            /\ props[n] = eval_expression(scope, v.expr).dyn
            /\ LastCall.fn = components[node.opening.name].global_fn_name
            /\ scope.has_context
            /\ LastCall.args =
                 [context |-> scope.context, props |-> props,
                  content |-> RenderedChildren(node.children)]
            /\ LET out == call_fn(LastCall.fn, scope.context, props,
                                  RenderedChildren(node.children))
               IN  /\ render_result.ok = out.ok
                   /\ out.ok => render_result.val = to_string(out.dyn)

\* <Note k m={context.input}>x</Note> dispatched to a registered component
C8_Witness ==
    /\ Rendered /\ render_result.ok
    /\ node.opening.name = "Note"
    /\ node.opening.attributes =
         <<Attribute("k", NoValue), Attribute("m", ExprValue("context.input"))>>
    /\ node.children = <<Text(<<"x">>)>>
    /\ LastCall.args.props = [k |-> Bool(TRUE), m |-> ContextValue]
    /\ LastCall.args.content = <<"x">>

-----------------------------------------------------------------------------
(* build_prompt_controller_collection                                        *)

\* the files a project may hold; two prompt files share the stem "a"
ProjectPaths ==
    {"prompts/a.md", "prompts/a.mdx", "prompts/b.md", "prompts/c.md", "content/d.md"}

\* file.kind.is_prompt()
is_prompt(path) == path # "content/d.md"

\* file.get_stem_path_relative_to("prompts").display().to_string()
get_stem_path_relative_to(path) ==
    CASE path = "prompts/a.md" -> "a"
      [] path = "prompts/a.mdx" -> "a"
      [] path = "prompts/b.md" -> "b"
      [] path = "prompts/c.md" -> "c"
      [] OTHER -> "../content/d"

\* build_prompt_controller: the controller of a file, or its compile error
build_prompt_controller(path, name) ==
    [ok |-> files[path], controller |-> [name |-> name, file |-> path], err |-> path]

\* DashMap::insert on prompt_controller_map
MapPut(map, name, prompt_controller) ==
    [n \in DOMAIN map \cup {name} |-> IF n = name THEN prompt_controller ELSE map[n]]

\* DocumentErrorCollection::register_error: errors are appended under the name
register_error(errors, name, err) ==
    [n \in DOMAIN errors \cup {name} |->
        IF n = name THEN (IF n \in DOMAIN errors THEN errors[n] ELSE {}) \cup {err}
        ELSE errors[n]]

\* DocumentErrorCollection::is_empty
is_empty(errors) == DOMAIN errors = {}

\* .filter(|file| file.kind.is_prompt())
PassesFilter(path) == is_prompt(path)

\* (changed) the iteration stops taking files once an error is registered
MayStartUntilError(path) == file_pc[path] = "queued" /\ error_collection = <<>>

\* the for_each closure runs for every file still queued
MayStart(path) == file_pc[path] = "queued"

\* (changed) the map is returned without looking at the error collection
BuildOutcomeIgnoringErrors(errors, map) ==
    [status |-> "ok", collection |-> map, report |-> <<>>]

\* if !error_collection.is_empty() { Err(..) } else { Ok(map.into()) }
BuildOutcome(errors, map) ==
    IF ~is_empty(errors)
    THEN [status |-> "failed", collection |-> <<>>, report |-> errors]
    ELSE [status |-> "ok", collection |-> map, report |-> <<>>]

BuildInit ==
    /\ \E S \in SUBSET ProjectPaths :
          /\ Cardinality(S) <= MaxFiles
          /\ files \in [S -> BOOLEAN]
          /\ file_pc = [f \in S |-> "queued"]
    /\ prompt_controller_map = <<>>
    /\ error_collection = <<>>
    /\ build_result = [status |-> "reading", collection |-> <<>>, report |-> <<>>]
    /\ TreeIdle
    /\ ReqIdle

\* read_project_files().await? : the listing arrives ...
ReadProjectFiles ==
    /\ build_result.status = "reading"
    /\ build_result' = [build_result EXCEPT !.status = "running"]
    /\ UNCHANGED <<files, file_pc, prompt_controller_map, error_collection,
                   treeVars, reqVars>>

\* ... or the filesystem fails and the `?` returns its error
ReadProjectFilesFails ==
    /\ build_result.status = "reading"
    /\ build_result' = [build_result EXCEPT !.status = "read_error"]
    /\ UNCHANGED <<files, file_pc, prompt_controller_map, error_collection,
                   treeVars, reqVars>>

\* a worker takes a file: the filter, then the name and build_prompt_controller
Compile(path) ==
    /\ build_result.status = "running"
    /\ MayStart(path)
    /\ file_pc' = [file_pc EXCEPT ![path] =
                     IF PassesFilter(path) THEN "compiled" ELSE "skipped"]
    /\ UNCHANGED <<files, prompt_controller_map, error_collection, build_result,
                   treeVars, reqVars>>

\* the match on the build's result: insert the controller or register the error
Record(path) ==
    /\ build_result.status = "running"
    /\ file_pc[path] = "compiled"
    /\ LET name == get_stem_path_relative_to(path)
           built == build_prompt_controller(path, name)
       IN  IF built.ok
           THEN /\ prompt_controller_map' =
                      MapPut(prompt_controller_map, name, built.controller)
                /\ UNCHANGED error_collection
           ELSE /\ error_collection' = register_error(error_collection, name, built.err)
                /\ UNCHANGED prompt_controller_map
    /\ file_pc' = [file_pc EXCEPT ![path] = "done"]
    /\ UNCHANGED <<files, build_result, treeVars, reqVars>>

\* for_each has returned: no closure is running and none is left to start
Finish ==
    /\ build_result.status = "running"
    /\ \A f \in DOMAIN files : file_pc[f] # "compiled" /\ ~MayStart(f)
    /\ build_result' = BuildOutcome(error_collection, prompt_controller_map)
    /\ UNCHANGED <<files, file_pc, prompt_controller_map, error_collection,
                   treeVars, reqVars>>

BuildNext ==
    \/ ReadProjectFiles
    \/ ReadProjectFilesFails
    \/ \E path \in DOMAIN files : Compile(path)
    \/ \E path \in DOMAIN files : Record(path)
    \/ Finish

SpecBuild == BuildInit /\ [][BuildNext]_vars

-----------------------------------------------------------------------------
(* Facts about a build                                                       *)

Finished == build_result.status \in {"ok", "failed"}
Candidates == {f \in DOMAIN files : is_prompt(f)}
Failing == {f \in Candidates : ~files[f]}
Compiling == Candidates \ Failing
NamesOf(S) == {get_stem_path_relative_to(f) : f \in S}

\* C1: whatever the interleaving, when the build returns every candidate has
\* been compiled and recorded (a failing one stops no other); the build fails
\* exactly when some candidate failed; and the report of a failed build has an
\* entry under the name of every failing candidate, every entry being the
\* error of a failing candidate and none that of a candidate that compiled.
C1_BuilderIsolation ==
    Finished =>
        /\ \A f \in Candidates : file_pc[f] = "done"
        /\ \A f \in Compiling :
              get_stem_path_relative_to(f) \in DOMAIN prompt_controller_map
        /\ (build_result.status = "failed") <=> (Failing # {})
        /\ build_result.status = "failed" =>
              /\ DOMAIN build_result.report = NamesOf(Failing)
              /\ \A n \in DOMAIN build_result.report :
                    build_result.report[n] =
                        {f \in Failing : get_stem_path_relative_to(f) = n}

\* three candidates, only b fails: the build fails and the report names b alone
C1_Witness ==
    /\ Finished
    /\ Candidates = {"prompts/a.md", "prompts/b.md", "prompts/c.md"}
    /\ Failing = {"prompts/b.md"}
    /\ build_result.status = "failed"
    /\ DOMAIN build_result.report = {"b"}
    /\ DOMAIN prompt_controller_map = {"a", "c"}

\* C2: once the files are read, the build returns a collection exactly when
\* the error collection is empty after all candidates are processed; the
\* collection then holds, under the derived name of every candidate prompt
\* file, a controller built from a prompt file of that name and nothing else;
\* when any candidate failed no collection, not even a partial one, is returned.
C2_CollectionIffNoErrors ==
    /\ Finished =>
         /\ (build_result.status = "ok") <=> is_empty(error_collection)
         /\ \A f \in DOMAIN files : file_pc[f] \in {"done", "skipped"}
         /\ build_result.status = "ok" =>
              /\ Failing = {}
              /\ DOMAIN build_result.collection = NamesOf(Candidates)
              /\ \A n \in DOMAIN build_result.collection :
                    /\ build_result.collection[n].file \in Candidates
                    /\ build_result.collection[n].name = n
                    /\ get_stem_path_relative_to(build_result.collection[n].file) = n
    /\ build_result.status # "ok" => build_result.collection = <<>>
    /\ (Failing # {}) => build_result.status # "ok"

\* two prompts and a content file, all fine: the collection holds b and c only
C2_Witness ==
    /\ DOMAIN files = {"prompts/b.md", "prompts/c.md", "content/d.md"}
    /\ build_result.status = "ok"
    /\ DOMAIN build_result.collection = {"b", "c"}
    /\ build_result.collection["b"].file = "prompts/b.md"

\* C10 (as stated): the outcome is a function of the set of candidate files
\* alone, also when two candidates derive the same name: the controller under
\* a name does not depend on which worker ran last, and every candidate is
\* accounted for exactly once in the collection or in the report.
C10_OrderIndependent ==
    Finished =>
        /\ build_result.status = "ok" =>
              /\ \A n \in DOMAIN build_result.collection :
                    build_result.collection[n].file =
                        CHOOSE f \in Candidates : get_stem_path_relative_to(f) = n
              /\ Cardinality(DOMAIN build_result.collection) = Cardinality(Candidates)
        /\ build_result.status = "failed" =>
              \A f \in Failing :
                  f \in build_result.report[get_stem_path_relative_to(f)]

-----------------------------------------------------------------------------
(* PromptDocumentController::respond_to                                      *)

NoRole == "none"
Roles == {"user", "assistant"}

\* a block of the document: its leading role marker, if any, and the inline
\* run after it, made of text and of {context.arguments.<name>.input}
TextPiece(t) == [kind |-> "text", text |-> t, argument |-> ""]
InputPiece(n) == [kind |-> "input", text |-> <<>>, argument |-> n]
Block(marker, pieces) == [marker |-> marker, pieces |-> pieces]

\* PromptDocumentFrontMatter with its Argument schema
Argument(required) == [required |-> required]
FrontMatters ==
    {[description |-> <<"test prompt description">>,
      arguments |-> [objective |-> Argument(TRUE), tone |-> Argument(r)]] :
        r \in BOOLEAN}

\* the missing required arguments of a request
MissingRequired(front_matter, arguments) ==
    {n \in DOMAIN front_matter.arguments :
        front_matter.arguments[n].required /\ n \notin DOMAIN arguments}

\* (changed) the error of map_arguments is swallowed and the request goes on
ArgumentsAcceptedAlways(front_matter, arguments) == TRUE

\* `map_arguments(arguments)?` lets the request go on
ArgumentsAccepted(front_matter, arguments) ==
    MissingRequired(front_matter, arguments) = {}

\* PromptDocumentFrontMatter::map_arguments, when nothing required is missing
MappedArguments(arguments) ==
    [n \in DOMAIN arguments |-> [input |-> arguments[n]]]

\* (changed) the context of the previous request is kept and only rebound
StaleContext(previous, arguments) ==
    [previous EXCEPT !.arguments = arguments]

\* the context respond_to builds for the request; `previous` is what the
\* slot held before and is not read
PromptDocumentComponentContext(previous, arguments) ==
    [arguments |-> arguments,
     current_role |-> NoRole,
     prompt_messages |-> <<>>,
     unprocessed_message_chunk |-> <<>>]

BlankContext ==
    [arguments |-> <<>>, current_role |-> NoRole,
     prompt_messages |-> <<>>, unprocessed_message_chunk |-> <<>>]

RECURSIVE TrimStart(_)
TrimStart(t) == IF t # <<>> /\ Head(t) = " " THEN TrimStart(Tail(t)) ELSE t
RECURSIVE TrimEnd(_)
TrimEnd(t) ==
    IF t # <<>> /\ t[Len(t)] = " " THEN TrimEnd(SubSeq(t, 1, Len(t) - 1)) ELSE t
Trim(t) == TrimEnd(TrimStart(t))

\* the inline run of a block, with the embedded expressions evaluated
RECURSIVE RenderPieces(_, _, _)
RenderPieces(arguments, pieces, acc) ==
    IF pieces = <<>> THEN [ok |-> TRUE, text |-> acc]
    ELSE LET p == Head(pieces)
         IN  IF p.kind = "text"
             THEN RenderPieces(arguments, Tail(pieces), acc \o p.text)
             ELSE IF p.argument \in DOMAIN arguments
             THEN RenderPieces(arguments, Tail(pieces),
                               acc \o arguments[p.argument].input)
             ELSE [ok |-> FALSE, text |-> <<>>]

PromptMessage(role, content) == [role |-> role, content |-> content]

\* the role a flushed chunk is tagged with
FlushRole(context, marker) == context.current_role

\* a pending chunk that is not empty becomes a message of the current role
Flush(context, marker) ==
    IF context.unprocessed_message_chunk = <<>> THEN [ok |-> TRUE, context |-> context]
    ELSE IF context.current_role = NoRole THEN [ok |-> FALSE, context |-> context]
    ELSE [ok |-> TRUE,
          context |-> [context EXCEPT
              !.prompt_messages =
                  Append(@, PromptMessage(FlushRole(context, marker),
                                          context.unprocessed_message_chunk)),
              !.unprocessed_message_chunk = <<>>]]

\* eval_prompt_document_mdast on one block
EvalBlock(context, block) ==
    LET r == RenderPieces(context.arguments, block.pieces, <<>>)
    IN  IF ~r.ok THEN [ok |-> FALSE, kind |-> "ExpressionError", context |-> context]
        ELSE IF block.marker # NoRole
        THEN LET f == Flush(context, block.marker)
             IN  IF ~f.ok THEN [ok |-> FALSE, kind |-> "RoleError", context |-> context]
                 ELSE [ok |-> TRUE, kind |-> "",
                       context |-> [f.context EXCEPT
                           !.current_role = block.marker,
                           !.unprocessed_message_chunk = Trim(r.text)]]
        ELSE [ok |-> TRUE, kind |-> "",
              context |-> [context EXCEPT
                  !.unprocessed_message_chunk =
                      IF @ = <<>> THEN Trim(r.text)
                      ELSE IF Trim(r.text) = <<>> THEN @
                      ELSE @ \o <<"\n\n">> \o Trim(r.text)]]

Failure(kind, argument, evaluated) ==
    [ok |-> FALSE, kind |-> kind, argument |-> argument,
     description |-> <<>>, messages |-> <<>>, evaluated |-> evaluated]

\* (changed) the result is built with a default message list
PromptsGetResultDefaultMessages(description, messages, evaluated) ==
    [ok |-> TRUE, kind |-> "", argument |-> "",
     description |-> description, messages |-> <<>>, evaluated |-> evaluated]

\* Ok(PromptsGetResult { description, messages, meta: None })
PromptsGetResult(description, messages, evaluated) ==
    [ok |-> TRUE, kind |-> "", argument |-> "",
     description |-> description, messages |-> messages, evaluated |-> evaluated]

-----------------------------------------------------------------------------
(* Requests against one controller, on two slots that run concurrently       *)

Slots == {1, 2}

BlockAlphabet ==
    {Block(m, ps) :
        m \in Roles \cup {NoRole},
        ps \in {<<TextPiece(<<" ", "wow">>)>>,
                <<TextPiece(<<" ">>), InputPiece("objective")>>,
                <<TextPiece(<<" ", "be">>), TextPiece(<<" ">>), InputPiece("tone")>>}}

Documents == UNION {[1..n -> BlockAlphabet] : n \in 0..MaxBlocks}

RequestArguments ==
    {<<>>,
     [objective |-> <<"ride a horse">>],
     [objective |-> <<>>, tone |-> <<"calm">>],
     [tone |-> <<"calm">>]}

IdleSlot == [pc |-> "idle", arguments |-> <<>>, context |-> BlankContext, position |-> 0]

RequestInit ==
    /\ controller \in [front_matter : FrontMatters, mdast : Documents]
    /\ requests = [r \in Slots |-> IdleSlot]
    /\ responses = {}
    /\ started = 0
    /\ TreeIdle
    /\ BuildIdle

Respond(arguments, result) ==
    responses' = responses \cup {[arguments |-> arguments, result |-> result]}

\* map_arguments(arguments)? fails: respond_to returns the argument error
RespondToRejected(r, arguments, missing) ==
    /\ requests[r].pc = "idle"
    /\ started < MaxRequests
    /\ missing \in MissingRequired(controller.front_matter, arguments)
    /\ started' = started + 1
    /\ requests' = [requests EXCEPT ![r] =
          [@ EXCEPT !.arguments = arguments, !.position = 0]]
    /\ Respond(arguments, Failure("ArgumentError", missing, 0))
    /\ UNCHANGED <<controller, treeVars, buildVars>>

\* map_arguments(arguments)? succeeds: the context of the request is built
RespondToAccepted(r, arguments) ==
    /\ requests[r].pc = "idle"
    /\ started < MaxRequests
    /\ ArgumentsAccepted(controller.front_matter, arguments)
    /\ started' = started + 1
    /\ requests' = [requests EXCEPT ![r] =
          [pc |-> "eval", arguments |-> arguments,
           context |-> PromptDocumentComponentContext(@.context,
                                                      MappedArguments(arguments)),
           position |-> 1]]
    /\ UNCHANGED <<controller, responses, treeVars, buildVars>>

\* eval_prompt_document_mdast reaches the next block of the document
EvalNextBlock(r) ==
    /\ requests[r].pc = "eval"
    /\ requests[r].position <= Len(controller.mdast)
    /\ LET e == EvalBlock(requests[r].context, controller.mdast[requests[r].position])
       IN  IF e.ok
           THEN /\ requests' = [requests EXCEPT ![r] =
                      [@ EXCEPT !.context = e.context, !.position = @ + 1]]
                /\ UNCHANGED responses
           ELSE /\ requests' = [requests EXCEPT ![r] = [@ EXCEPT !.pc = "idle"]]
                /\ Respond(requests[r].arguments,
                           Failure(e.kind, "", requests[r].position))
    /\ UNCHANGED <<controller, started, treeVars, buildVars>>

\* the document ends: the last chunk is flushed and the result returned
ReturnResult(r) ==
    /\ requests[r].pc = "eval"
    /\ requests[r].position > Len(controller.mdast)
    /\ LET f == Flush(requests[r].context, NoRole)
       IN  /\ requests' = [requests EXCEPT ![r] =
                 [@ EXCEPT !.pc = "idle", !.context = f.context]]
           /\ IF f.ok
              THEN Respond(requests[r].arguments,
                           PromptsGetResult(controller.front_matter.description,
                                            f.context.prompt_messages,
                                            Len(controller.mdast)))
              ELSE Respond(requests[r].arguments,
                           Failure("RoleError", "", Len(controller.mdast)))
    /\ UNCHANGED <<controller, started, treeVars, buildVars>>

RequestNext ==
    \/ \E r \in Slots, a \in RequestArguments, n \in {"objective", "tone"} :
          RespondToRejected(r, a, n)
    \/ \E r \in Slots, a \in RequestArguments : RespondToAccepted(r, a)
    \/ \E r \in Slots : EvalNextBlock(r)
    \/ \E r \in Slots : ReturnResult(r)

SpecRespond == RequestInit /\ [][RequestNext]_vars

-----------------------------------------------------------------------------
(* Facts about requests                                                      *)

EveryBlockHasMarker == \A i \in 1..Len(controller.mdast) : controller.mdast[i].marker # NoRole

\* what the block at i renders to for a request
BlockText(arguments, i) ==
    Trim(RenderPieces(MappedArguments(arguments), controller.mdast[i].pieces, <<>>).text)

RECURSIVE MessagesFrom(_, _)
MessagesFrom(arguments, i) ==
    IF i > Len(controller.mdast) THEN <<>>
    ELSE (IF BlockText(arguments, i) = <<>> THEN <<>>
          ELSE <<PromptMessage(controller.mdast[i].marker, BlockText(arguments, i))>>)
         \o MessagesFrom(arguments, i + 1)

\* C3 (as stated): when every block begins with a role marker, a successful
\* response has exactly one message per block, in document order, tagged with
\* the block's role and carrying the block's rendered remainder.
C3_AsStated ==
    \A p \in responses :
        (EveryBlockHasMarker /\ p.result.ok) =>
            /\ Len(p.result.messages) = Len(controller.mdast)
            /\ \A i \in 1..Len(controller.mdast) :
                  p.result.messages[i] =
                      PromptMessage(controller.mdast[i].marker, BlockText(p.arguments, i))

\* C3 (amended): when every block begins with a role marker, a successful
\* response has exactly one message per block whose rendered remainder is not
\* empty, in document order, tagged with that block's role and carrying its
\* rendered remainder; a block that renders to nothing yields no message.
C3_RoleSegmentation ==
    \A p \in responses :
        (EveryBlockHasMarker /\ p.result.ok) =>
            p.result.messages = MessagesFrom(p.arguments, 1)

\* user / assistant with the argument bound: two messages, in that order
C3_Witness ==
    /\ Len(controller.mdast) = 2
    /\ controller.mdast[1] = Block("user", <<TextPiece(<<" ">>), InputPiece("objective")>>)
    /\ controller.mdast[2] = Block("assistant", <<TextPiece(<<" ", "wow">>)>>)
    /\ \E p \in responses :
          /\ p.result.ok
          /\ p.result.messages =
                <<PromptMessage("user", <<"ride a horse">>),
                  PromptMessage("assistant", <<"wow">>)>>

-----------------------------------------------------------------------------
-----------------------------------------------------------------------------
Outcome(result) ==
    [ok |-> result.ok, description |-> result.description, messages |-> result.messages]

SameAnswers ==
    \A p, q \in responses :
        p.arguments = q.arguments => Outcome(p.result) = Outcome(q.result)

\* C6: any two responses of the controller to the same arguments carry the
\* same description and the same messages, whether the requests ran one after
\* the other or interleaved with other requests; and no step of a request,
\* successful or failed, changes the controller's front matter and document
\* tree or the component registry.
C6_Idempotent ==
    /\ []SameAnswers
    /\ [][controller' = controller /\ components' = components]_vars

\* both slots have answered the same successful request
C6_Witness ==
    /\ started >= 2
    /\ \A r \in Slots : requests[r].pc = "idle" /\ requests[r].position > 0
    /\ requests[1].arguments = requests[2].arguments
    /\ \E p \in responses :
          /\ p.arguments = requests[1].arguments
          /\ p.result.ok
          /\ p.result.messages # <<>>

=============================================================================
